---------------------------- MODULE Spec2Model ----------------------------
(***************************************************************************)
(* A model of web/serve.py: a socketserver.TCPServer bound to ("", PORT)   *)
(* whose requests are answered by http.server.SimpleHTTPRequestHandler     *)
(* rooted at DIRECTORY.  The module models                                 *)
(*   - the handler: translate_path, send_head, do_GET / do_HEAD, computed  *)
(*     over a small file tree that has files inside and outside DIRECTORY; *)
(*   - the process: the with-block, the two startup prints, serve_forever, *)
(*     the KeyboardInterrupt handler, and the listening socket, for two    *)
(*     instances of the program competing for the same port.               *)
(***************************************************************************)
EXTENDS Integers, Sequences, FiniteSets, TLC

(***************************************************************************)
(* Bounds of the model.                                                    *)
(***************************************************************************)
\* longest request path, in segments
MaxSegs == 3
\* number of client connections made during one behaviour
MaxConns == 2

(***************************************************************************)
(* Program constants (serve.py lines 8, 9 and 16).                         *)
(***************************************************************************)
PORT == 8000

\* the directory that holds serve.py, and the directory the program was
\* launched from
ScriptDir == <<"srv", "web">>

launch_cwd == <<"srv">>

\* os.path.dirname(os.path.abspath(__file__))
DIRECTORY == ScriptDir

\* the flag left at socketserver's default
reuse_address_off == FALSE

\* socketserver.TCPServer.allow_reuse_address = True
allow_reuse_address == TRUE

(***************************************************************************)
(* The file tree.  Keys are absolute paths (sequences of names).  The tree *)
(* holds regular files and directories only.  DIRECTORY is /srv/web;       *)
(* /srv/secret.txt lies outside it.  private.txt exists but its mode bits  *)
(* deny reading to the server's user.  The root of DIRECTORY has an        *)
(* index.html, the directory static has none.                              *)
(***************************************************************************)
NoEntry == [kind |-> "none", readable |-> FALSE, data |-> ""]

Dir(listing) == [kind |-> "dir", readable |-> TRUE, data |-> listing]

File(r, bytes) == [kind |-> "file", readable |-> r, data |-> bytes]

FS ==
    (<<>> :> Dir("<li>srv/</li>"))
    @@ (<<"srv">> :> Dir("<li>secret.txt</li><li>web/</li>"))
    @@ (<<"srv", "secret.txt">> :> File(TRUE, "TOP SECRET"))
    @@ (<<"srv", "web">> :> Dir("<li>index.html</li><li>private.txt</li><li>static/</li>"))
    @@ (<<"srv", "web", "index.html">> :> File(TRUE, "<h1>hi</h1>"))
    @@ (<<"srv", "web", "private.txt">> :> File(FALSE, "private notes"))
    @@ (<<"srv", "web", "static">> :> Dir("<li>app.js</li>"))
    @@ (<<"srv", "web", "static", "app.js">> :> File(TRUE, "console.log(1)"))

Lookup(p) == IF p \in DOMAIN FS THEN FS[p] ELSE NoEntry

\* The path names the operating system resolves: "." stays, ".." goes to the
\* parent (the root is its own parent), a name descends; every step needs
\* the current entry to be a directory.  <<"ENOENT">> is never a key of FS.
RECURSIVE Walk(_, _)
Walk(at, rest) ==
    IF rest = <<>> THEN at
    ELSE IF Lookup(at).kind # "dir" THEN <<"ENOENT">>
    ELSE LET w == Head(rest) IN
         IF w = "." THEN Walk(at, Tail(rest))
         ELSE IF w = ".."
              THEN Walk(IF at = <<>> THEN at ELSE SubSeq(at, 1, Len(at) - 1), Tail(rest))
              ELSE Walk(Append(at, w), Tail(rest))

\* os.path.isdir / os.path.isfile of a path; a trailing "/" on a path makes
\* the last component resolve as a directory or not at all.
isdir(p) == Lookup(Walk(<<>>, p.words)).kind = "dir"

isfile(words) == Lookup(Walk(<<>>, words)).kind = "file"

\* open(path, 'rb'): the file's bytes, or the OSError raised.
open(words) ==
    LET e == Lookup(Walk(<<>>, words)) IN
    IF e.kind = "none" THEN [err |-> "ENOENT", data |-> ""]
    ELSE IF e.kind = "dir" THEN [err |-> "EISDIR", data |-> ""]
    ELSE IF ~e.readable THEN [err |-> "EACCES", data |-> ""]
    ELSE [err |-> "", data |-> e.data]

\* os.listdir(path)
listdir(words) ==
    LET e == Lookup(Walk(<<>>, words)) IN
    IF e.kind = "dir" /\ e.readable THEN [err |-> "", data |-> e.data]
    ELSE [err |-> "EACCES", data |-> ""]

(***************************************************************************)
(* Requests.  A request path is written abs ? "/" : "", then the segments  *)
(* joined by "/", then "/" when slash.  The empty path cannot be sent, and *)
(* "/" is abs with no segments.                                            *)
(***************************************************************************)
Segments == {".", "..", "index.html", "private.txt", "static", "app.js", "secret.txt"}

SeqsUpTo(S, n) == UNION {[1..k -> S] : k \in 0..n}

Paths ==
    {[abs |-> a, segs |-> s, slash |-> t] :
        a \in BOOLEAN, s \in SeqsUpTo(Segments, MaxSegs), t \in BOOLEAN}

RequestPaths == {p \in Paths : p.segs = <<>> => (p.abs /\ p.slash)}

Methods == {"GET", "HEAD"}

Requests == [method : Methods, path : RequestPaths]

NoRequest == [method |-> "", path |-> [abs |-> TRUE, segs |-> <<>>, slash |-> TRUE]]

(***************************************************************************)
(* SimpleHTTPRequestHandler.                                               *)
(***************************************************************************)
\* posixpath.normpath: the components kept, left to right.
RECURSIVE normpath(_, _, _)
normpath(initial_slashes, comps, new_comps) ==
    IF comps = <<>> THEN new_comps
    ELSE LET comp == Head(comps) IN
         IF comp \in {"", "."} THEN normpath(initial_slashes, Tail(comps), new_comps)
         ELSE IF \/ comp # ".."
                 \/ (~initial_slashes /\ new_comps = <<>>)
                 \/ (new_comps # <<>> /\ new_comps[Len(new_comps)] = "..")
              THEN normpath(initial_slashes, Tail(comps), Append(new_comps, comp))
              ELSE IF new_comps # <<>>
                   THEN normpath(initial_slashes, Tail(comps),
                                 SubSeq(new_comps, 1, Len(new_comps) - 1))
                   ELSE normpath(initial_slashes, Tail(comps), new_comps)

RECURSIVE SelectWords(_, _)
SelectWords(words, drop) ==
    IF words = <<>> THEN <<>>
    ELSE IF Head(words) \in drop THEN SelectWords(Tail(words), drop)
    ELSE <<Head(words)>> \o SelectWords(Tail(words), drop)

\* only os.curdir is ignored
OnlyCurdir == {"."}

\* the components translate_path ignores: os.curdir and os.pardir
NotSimpleNames == {".", ".."}

\* translate_path where no component is ignored
translate_path_keep_pardir(path) ==
    [words |-> DIRECTORY \o normpath(path.abs, path.segs, <<>>),
     slash |-> path.slash]

\* translate_path: the file-system path of a request path, and whether it
\* ends in "/"
translate_path(path) ==
    [words |-> DIRECTORY \o SelectWords(normpath(path.abs, path.segs, <<>>), NotSimpleNames),
     slash |-> path.slash]

\* the status send_head gives an OSError from open(); one that tells a
\* permission error apart
open_error_status_403(err) == IF err = "EACCES" THEN 403 ELSE 404

\* send_head: "except OSError: self.send_error(HTTPStatus.NOT_FOUND, ...)"
open_error_status(err) == 404

\* send_error: the error page goes out unless the command is HEAD
send_error(method, status, message) ==
    [status |-> status, body |-> IF method = "HEAD" THEN "" ELSE message]

\* the file part of send_head, then do_GET's copyfile (do_HEAD sends no body)
send_file(method, words, slash) ==
    IF slash THEN send_error(method, 404, "File not found")
    ELSE LET f == open(words) IN
         IF f.err # "" THEN send_error(method, open_error_status(f.err), "File not found")
         ELSE [status |-> 200, body |-> IF method = "HEAD" THEN "" ELSE f.data]

\* list_directory
list_directory(method, words) ==
    LET l == listdir(words) IN
    IF l.err # "" THEN send_error(method, 404, "No permission to list directory")
    ELSE [status |-> 200, body |-> IF method = "HEAD" THEN "" ELSE l.data]

\* do_GET / do_HEAD: the response to a request
Handler(request) ==
    LET path == translate_path(request.path) IN
    IF isdir(path)
    THEN IF ~request.path.slash
         THEN [status |-> 301, body |-> ""]
         ELSE IF isfile(Append(path.words, "index.html"))
              THEN send_file(request.method, Append(path.words, "index.html"), FALSE)
              ELSE IF isfile(Append(path.words, "index.htm"))
                   THEN send_file(request.method, Append(path.words, "index.htm"), FALSE)
                   ELSE list_directory(request.method, path.words)
    ELSE send_file(request.method, path.words, path.slash)

(***************************************************************************)
(* The processes.  Two instances of the program run on one host.           *)
(*   pc         where each instance is in __main__ (and in serve_forever)  *)
(*   sock       the state of each instance's listening socket              *)
(*   out        the lines each instance has printed                        *)
(*   exit_code  each instance's exit status, Running while it runs         *)
(*   ints       the number of interrupts delivered to each instance        *)
(*   first_int  where the instance was when its first interrupt arrived    *)
(*   cur        the connection each instance is handling, NoConn if none   *)
(*   request    the request each instance has parsed from that connection  *)
(*   response   what each instance has written to that connection          *)
(*   conn       each client connection: its state, the instance it reached *)
(*              and the status logged for it                               *)
(*   time_wait  whether closed connections of the port linger in TIME_WAIT *)
(***************************************************************************)
VARIABLES pc, sock, out, exit_code, ints, first_int, cur, request, response,
          conn, time_wait

vars == <<pc, sock, out, exit_code, ints, first_int, cur, request, response,
          conn, time_wait>>

Instances == {"first", "second"}

Conns == 1..MaxConns

NoConn == 0

Running == -1

NoResponse == [status |-> 0, body |-> ""]

StartupLine1 == "Serving chat app at http://localhost:8000"

StartupLine2 == "Press Ctrl+C to stop"

StoppedLine == "\nServer stopped."

\* the program points inside httpd.serve_forever()
InLoop == {"serving", "request", "respond", "shutdown"}

\* the program points between the with statement's entry and the try
InStartup == {"bound", "printed1"}

Listening(i) == sock[i] = "listening"

Init ==
    /\ pc = [i \in Instances |-> "init"]
    /\ sock = [i \in Instances |-> "unopened"]
    /\ out = [i \in Instances |-> <<>>]
    /\ exit_code = [i \in Instances |-> Running]
    /\ ints = [i \in Instances |-> 0]
    /\ first_int = [i \in Instances |-> ""]
    /\ cur = [i \in Instances |-> NoConn]
    /\ request = [i \in Instances |-> NoRequest]
    /\ response = [i \in Instances |-> NoResponse]
    /\ conn = [c \in Conns |-> [st |-> "idle", srv |-> "", status |-> 0]]
    /\ time_wait = FALSE

\* bind() where SO_REUSEADDR lets a second socket share a listening port
bind_ok_shared(i) ==
    \/ allow_reuse_address
    \/ (~time_wait /\ \A j \in Instances \ {i} : ~Listening(j))

\* bind(("", PORT)) on the socket of instance i: the port must have no
\* listening socket; connections in TIME_WAIT block it unless SO_REUSEADDR
\* was set (server_bind sets it when allow_reuse_address)
bind_ok(i) ==
    /\ \A j \in Instances \ {i} : ~Listening(j)
    /\ (allow_reuse_address \/ ~time_wait)

\* the listening socket of i is closed: connections waiting in its backlog
\* are reset
ResetBacklog(i) ==
    [c \in Conns |->
        IF conn[c].srv = i /\ conn[c].st = "queued"
        THEN [conn[c] EXCEPT !.st = "reset"] ELSE conn[c]]

\* a start in which a failed bind does not stop the program
Start_ignores_bind_error(i) ==
    /\ pc[i] = "init"
    /\ pc' = [pc EXCEPT ![i] = "bound"]
    /\ sock' = [sock EXCEPT ![i] = IF bind_ok(i) THEN "listening" ELSE "bindfailed"]
    /\ UNCHANGED <<out, exit_code, ints, first_int, cur, request, response, conn, time_wait>>

\* line 20: socketserver.TCPServer(("", PORT), Handler).  The constructor
\* binds and listens; when bind raises OSError it closes the socket and the
\* exception leaves __main__: the interpreter exits with status 1.
Start(i) ==
    /\ pc[i] = "init"
    /\ IF bind_ok(i)
       THEN /\ sock' = [sock EXCEPT ![i] = "listening"]
            /\ pc' = [pc EXCEPT ![i] = "bound"]
            /\ UNCHANGED exit_code
       ELSE /\ sock' = [sock EXCEPT ![i] = "bindfailed"]
            /\ pc' = [pc EXCEPT ![i] = "exited"]
            /\ exit_code' = [exit_code EXCEPT ![i] = 1]
    /\ UNCHANGED <<out, ints, first_int, cur, request, response, conn, time_wait>>

\* line 21
PrintStartup1(i) ==
    /\ pc[i] = "bound"
    /\ out' = [out EXCEPT ![i] = Append(@, StartupLine1)]
    /\ pc' = [pc EXCEPT ![i] = "printed1"]
    /\ UNCHANGED <<sock, exit_code, ints, first_int, cur, request, response, conn, time_wait>>

\* lines 22-24: the second print, then the try is entered and serve_forever
\* waits for a connection
PrintStartup2(i) ==
    /\ pc[i] = "printed1"
    /\ out' = [out EXCEPT ![i] = Append(@, StartupLine2)]
    /\ pc' = [pc EXCEPT ![i] = "serving"]
    /\ UNCHANGED <<sock, exit_code, ints, first_int, cur, request, response, conn, time_wait>>

\* a client connects to the port: the connection waits in the backlog of
\* the instance that listens.  Connections are numbered as they arrive.
Connect(c) ==
    /\ conn[c].st = "idle"
    /\ \A b \in Conns : b < c => conn[b].st # "idle"
    /\ \E i \in Instances :
        /\ Listening(i)
        /\ conn' = [conn EXCEPT ![c] = [st |-> "queued", srv |-> i, status |-> 0]]
    /\ UNCHANGED <<pc, sock, out, exit_code, ints, first_int, cur, request, response, time_wait>>

\* an accept that hands the connection to a thread and goes on accepting
Accept_threaded(i, c) ==
    /\ pc[i] \in InLoop
    /\ conn[c].st = "queued"
    /\ conn[c].srv = i
    /\ cur' = [cur EXCEPT ![i] = c]
    /\ conn' = [conn EXCEPT ![c].st = "accepted"]
    /\ pc' = [pc EXCEPT ![i] = "request"]
    /\ UNCHANGED <<sock, out, exit_code, ints, first_int, request, response, time_wait>>

\* serve_forever: _handle_request_noblock takes the next connection
\* (get_request) and calls process_request on it, in the same thread
Accept(i, c) ==
    /\ pc[i] = "serving"
    /\ conn[c].st = "queued"
    /\ conn[c].srv = i
    /\ cur' = [cur EXCEPT ![i] = c]
    /\ conn' = [conn EXCEPT ![c].st = "accepted"]
    /\ pc' = [pc EXCEPT ![i] = "request"]
    /\ UNCHANGED <<sock, out, exit_code, ints, first_int, request, response, time_wait>>

\* Handler.__init__ -> handle_one_request: the request line is read and
\* parsed; R is the set of requests a client may send
ReadRequest(i, R) ==
    /\ pc[i] = "request"
    /\ \E r \in R : request' = [request EXCEPT ![i] = r]
    /\ conn' = [conn EXCEPT ![cur[i]].st = "read"]
    /\ pc' = [pc EXCEPT ![i] = "respond"]
    /\ UNCHANGED <<sock, out, exit_code, ints, first_int, cur, response, time_wait>>

\* a handler whose file errors, once answered, leave the server as uncaught
\* exceptions
Respond_error_escapes(i) ==
    /\ pc[i] = "respond"
    /\ LET r == Handler(request[i]) IN
       IF r.status >= 400
       THEN /\ pc' = [pc EXCEPT ![i] = "exited"]
            /\ exit_code' = [exit_code EXCEPT ![i] = 1]
            /\ sock' = [sock EXCEPT ![i] = "closed"]
            /\ conn' = [ResetBacklog(i) EXCEPT
                          ![cur[i]] = [@ EXCEPT !.st = "closed", !.status = r.status]]
            /\ UNCHANGED response
       ELSE /\ response' = [response EXCEPT ![i] = r]
            /\ conn' = [conn EXCEPT ![cur[i]] = [@ EXCEPT !.st = "responded", !.status = r.status]]
            /\ pc' = [pc EXCEPT ![i] = "shutdown"]
            /\ UNCHANGED <<sock, exit_code>>
    /\ UNCHANGED <<out, ints, first_int, cur, request, time_wait>>

\* do_GET / do_HEAD: the response is written to the connection and its
\* status logged
Respond(i) ==
    /\ pc[i] = "respond"
    /\ LET r == Handler(request[i]) IN
       /\ response' = [response EXCEPT ![i] = r]
       /\ conn' = [conn EXCEPT ![cur[i]] = [@ EXCEPT !.st = "responded", !.status = r.status]]
    /\ pc' = [pc EXCEPT ![i] = "shutdown"]
    /\ UNCHANGED <<sock, out, exit_code, ints, first_int, cur, request, time_wait>>

\* shutdown_request: the connection is closed by the server, which leaves
\* it in TIME_WAIT; serve_forever takes the next connection
ShutdownRequest(i) ==
    /\ pc[i] = "shutdown"
    /\ conn' = [conn EXCEPT ![cur[i]].st = "closed"]
    /\ cur' = [cur EXCEPT ![i] = NoConn]
    /\ request' = [request EXCEPT ![i] = NoRequest]
    /\ response' = [response EXCEPT ![i] = NoResponse]
    /\ time_wait' = TRUE
    /\ pc' = [pc EXCEPT ![i] = "serving"]
    /\ UNCHANGED <<sock, out, exit_code, ints, first_int>>

\* the TIME_WAIT period of the closed connections ends
TimeWaitExpires ==
    /\ time_wait
    /\ time_wait' = FALSE
    /\ UNCHANGED <<pc, sock, out, exit_code, ints, first_int, cur, request, response, conn>>

\* KeyboardInterrupt leaves the with block uncaught: __exit__ closes the
\* listening socket and the interpreter ends with a nonzero status
Uncaught(i) ==
    /\ pc' = [pc EXCEPT ![i] = "exited"]
    /\ sock' = [sock EXCEPT ![i] = "closed"]
    /\ exit_code' = [exit_code EXCEPT ![i] = 130]

\* an interrupt the program has no handler for
Interrupt_uncaught(i) ==
    /\ pc[i] \in InStartup \cup InLoop \cup {"caught"}
    /\ ints' = [ints EXCEPT ![i] = @ + 1]
    /\ first_int' = [first_int EXCEPT ![i] = IF ints[i] = 0 THEN pc[i] ELSE @]
    /\ Uncaught(i)
    /\ conn' = [c \in Conns |->
                  IF c = cur[i] THEN [conn[c] EXCEPT !.st = "closed"] ELSE ResetBacklog(i)[c]]
    /\ cur' = [cur EXCEPT ![i] = NoConn]
    /\ request' = [request EXCEPT ![i] = NoRequest]
    /\ response' = [response EXCEPT ![i] = NoResponse]
    /\ time_wait' = (time_wait \/ cur[i] # NoConn)
    /\ UNCHANGED out

\* SIGINT: KeyboardInterrupt is raised where the instance is.
\*   between the with statement's entry and the try (lines 21-22), and in
\*   the except clause (line 26): nothing catches it;
\*   in serve_forever (line 24): _handle_request_noblock closes the
\*   connection being handled (shutdown_request) and re-raises, and the
\*   except clause of line 25 catches it.
Interrupt(i) ==
    /\ pc[i] \in InStartup \cup InLoop \cup {"caught"}
    /\ ints' = [ints EXCEPT ![i] = @ + 1]
    /\ first_int' = [first_int EXCEPT ![i] = IF ints[i] = 0 THEN pc[i] ELSE @]
    /\ IF pc[i] \in InLoop
       THEN /\ pc' = [pc EXCEPT ![i] = "caught"]
            /\ conn' = [c \in Conns |->
                          IF c = cur[i] THEN [conn[c] EXCEPT !.st = "closed"] ELSE conn[c]]
            /\ cur' = [cur EXCEPT ![i] = NoConn]
            /\ request' = [request EXCEPT ![i] = NoRequest]
            /\ response' = [response EXCEPT ![i] = NoResponse]
            /\ time_wait' = (time_wait \/ cur[i] # NoConn)
            /\ UNCHANGED <<sock, exit_code>>
       ELSE /\ Uncaught(i)
            /\ conn' = ResetBacklog(i)
            /\ UNCHANGED <<cur, request, response, time_wait>>
    /\ UNCHANGED out

\* line 26, then the with statement's __exit__ (server_close) and the end
\* of the script: exit status 0
Stop(i) ==
    /\ pc[i] = "caught"
    /\ out' = [out EXCEPT ![i] = Append(@, StoppedLine)]
    /\ sock' = [sock EXCEPT ![i] = "closed"]
    /\ conn' = ResetBacklog(i)
    /\ exit_code' = [exit_code EXCEPT ![i] = 0]
    /\ pc' = [pc EXCEPT ![i] = "exited"]
    /\ UNCHANGED <<ints, first_int, cur, request, response, time_wait>>

\* the requests the clients of the two instances send
Get(a, s, t) == [method |-> "GET", path |-> [abs |-> a, segs |-> s, slash |-> t]]

LoopRequests ==
    { Get(TRUE, <<"index.html">>, FALSE),
      Get(TRUE, <<"secret.txt">>, FALSE),
      Get(FALSE, <<"..", "secret.txt">>, FALSE),
      Get(TRUE, <<"private.txt">>, FALSE),
      Get(TRUE, <<"static">>, TRUE),
      [method |-> "HEAD", path |-> [abs |-> TRUE, segs |-> <<"index.html">>, slash |-> FALSE]] }

Next ==
    \/ \E i \in Instances : Start(i)
    \/ \E i \in Instances : PrintStartup1(i)
    \/ \E i \in Instances : PrintStartup2(i)
    \/ \E c \in Conns : Connect(c)
    \/ \E i \in Instances, c \in Conns : Accept(i, c)
    \/ \E i \in Instances : ReadRequest(i, LoopRequests)
    \/ \E i \in Instances : Respond(i)
    \/ \E i \in Instances : ShutdownRequest(i)
    \/ \E i \in Instances : Interrupt(i)
    \/ \E i \in Instances : Stop(i)
    \/ TimeWaitExpires

Spec == Init /\ [][Next]_vars

\* the program runs on: once the except clause is reached, line 26 and the
\* end of the with block are executed
FairSpec == Spec /\ \A i \in Instances : WF_vars(Stop(i))

\* one instance that is never interrupted, and clients that may send any
\* request
NextHandler ==
    \/ Start("first")
    \/ PrintStartup1("first")
    \/ PrintStartup2("first")
    \/ \E c \in Conns : Connect(c)
    \/ \E c \in Conns : Accept("first", c)
    \/ ReadRequest("first", Requests)
    \/ Respond("first")
    \/ ShutdownRequest("first")

SpecHandler == Init /\ [][NextHandler]_vars

(***************************************************************************)
(* What the claims speak of.                                               *)
(***************************************************************************)
\* p lies under the directory d
Under(p, d) == Len(p) > Len(d) /\ SubSeq(p, 1, Len(d)) = d

\* the path a URL path denotes under its root (RFC 3986, 5.2.4): "." is
\* dropped, ".." drops the segment before it and is itself dropped
RECURSIVE RemoveDotSegments(_, _)
RemoveDotSegments(segs, acc) ==
    IF segs = <<>> THEN acc
    ELSE IF Head(segs) = "." THEN RemoveDotSegments(Tail(segs), acc)
    ELSE IF Head(segs) = ".."
         THEN RemoveDotSegments(Tail(segs),
                                IF acc = <<>> THEN acc ELSE SubSeq(acc, 1, Len(acc) - 1))
         ELSE RemoveDotSegments(Tail(segs), Append(acc, Head(segs)))

\* the entry of the base directory a request path resolves to
Target(path) == Lookup(ScriptDir \o RemoveDotSegments(path.segs, <<>>))

\* the request path is the relative URL of a file under the base directory
IsUrlOfFile(path) ==
    /\ ~path.slash
    /\ path.segs # <<>>
    /\ \A k \in 1..Len(path.segs) : path.segs[k] \notin {".", ".."}
    /\ Lookup(ScriptDir \o path.segs).kind = "file"

FileOf(path) == Lookup(ScriptDir \o path.segs)

\* the contents of the files outside the base directory
OutsideData ==
    {FS[p].data : p \in {q \in DOMAIN FS : FS[q].kind = "file" /\ ~Under(q, ScriptDir)}}

\* instance i has written its response to a request
Answered(i) == pc[i] = "shutdown"

Active(i) == {c \in Conns : conn[c].srv = i /\ conn[c].st \in {"accepted", "read", "responded"}}

Listeners == {i \in Instances : Listening(i)}

(***************************************************************************)
(* C1                                                                      *)
(***************************************************************************)
\* C1 as stated: in every state of a running server, whatever requests came
\* before, a GET for the relative URL of a file that exists under the base
\* directory is answered 200 with the file's bytes.
C1_ExistingFileServed ==
    \A i \in Instances :
        (Answered(i) /\ request[i].method = "GET" /\ IsUrlOfFile(request[i].path))
        => response[i] = [status |-> 200, body |-> FileOf(request[i].path).data]

\* C1, amended: in every state of a running server, whatever requests came
\* before, a GET for the relative URL of a file that exists under the base
\* directory and is readable is answered 200 with the file's bytes.
C1_ReadableFileServed ==
    \A i \in Instances :
        (/\ Answered(i)
         /\ request[i].method = "GET"
         /\ IsUrlOfFile(request[i].path)
         /\ FileOf(request[i].path).readable)
        => response[i] = [status |-> 200, body |-> FileOf(request[i].path).data]

\* a file in a subdirectory has been served right after a request that failed
C1_Witness ==
    /\ Answered("first")
    /\ request["first"] = Get(TRUE, <<"static", "app.js">>, FALSE)
    /\ response["first"] = [status |-> 200, body |-> "console.log(1)"]
    /\ \E c \in Conns : conn[c].st = "closed" /\ conn[c].status = 404

(***************************************************************************)
(* C2                                                                      *)
(***************************************************************************)
\* C2: for every request path, traversal segments included, no response
\* body is the content of a file outside the base directory.
C2_NoContentFromOutside ==
    \A i \in Instances : response[i].body \notin OutsideData

\* a request whose path the operating system would resolve to a file outside
\* the base directory has been answered, with 404
C2_Witness ==
    \E i \in Instances :
        /\ Answered(i)
        /\ \E k \in 1..Len(request[i].path.segs) : request[i].path.segs[k] = ".."
        /\ LET e == Walk(<<>>, ScriptDir \o request[i].path.segs) IN
           /\ Lookup(e).kind = "file"
           /\ ~Under(e, ScriptDir)
        /\ request[i].method = "GET"
        /\ response[i].status = 404

(***************************************************************************)
(* C3                                                                      *)
(***************************************************************************)
\* C3 as stated: a request path that does not resolve to an existing file
\* under the base directory is answered 404.
C3_NotAFileIs404 ==
    \A i \in Instances :
        (Answered(i) /\ Target(request[i].path).kind # "file")
        => response[i].status = 404

\* C3, amended: a request path that resolves neither to an existing file
\* nor to an existing directory under the base directory is answered 404.
C3_MissingIs404 ==
    \A i \in Instances :
        (Answered(i) /\ Target(request[i].path).kind = "none")
        => response[i].status = 404

\* a path with no entry behind it, reached through a parent segment, has
\* been answered
C3_Witness ==
    \E i \in Instances :
        /\ Answered(i)
        /\ request[i].path.segs = <<"static", "..", "secret.txt">>
        /\ Target(request[i].path).kind = "none"
        /\ response[i].status = 404

C4_RequestErrorsDoNotStopServer ==
    /\ \A c \in Conns :
        (conn[c].status >= 400 /\ ints[conn[c].srv] = 0)
        => (/\ pc[conn[c].srv] \in InLoop
            /\ Listening(conn[c].srv)
            /\ exit_code[conn[c].srv] = Running)
    /\ \A i \in Instances :
        (/\ Answered(i)
         /\ \E c \in Conns : conn[c].srv = i /\ conn[c].st = "closed" /\ conn[c].status >= 400
         /\ request[i].method = "GET"
         /\ IsUrlOfFile(request[i].path)
         /\ FileOf(request[i].path).readable)
        => response[i] = [status |-> 200, body |-> FileOf(request[i].path).data]

\* after a traversal attempt was answered 404, the same instance has served
\* index.html
C4_Witness ==
    \E i \in Instances :
        /\ conn[1] = [st |-> "closed", srv |-> i, status |-> 404]
        /\ cur[i] = 2
        /\ Answered(i)
        /\ request[i] = Get(TRUE, <<"index.html">>, FALSE)
        /\ response[i] = [status |-> 200, body |-> "<h1>hi</h1>"]
        /\ Listening(i)

(***************************************************************************)
(* C5                                                                      *)
(***************************************************************************)
\* C5: connections are served one at a time: an instance handles at most
\* one connection, the one it accepted last; while it waits to accept it
\* handles none; and unless an interrupt cut it short, a connection that is
\* closed has had its request read and its response written.
C5_OneConnectionAtATime ==
    \A i \in Instances :
        /\ Cardinality(Active(i)) <= 1
        /\ Active(i) \subseteq {cur[i]}
        /\ pc[i] = "serving" => (Active(i) = {} /\ cur[i] = NoConn)
        /\ \A c \in Conns :
            (conn[c].srv = i /\ conn[c].st = "closed" /\ ints[i] = 0) => conn[c].status # 0

\* a second connection waits in the backlog while the first is handled
C5_Witness ==
    \E i \in Instances :
        /\ pc[i] = "respond"
        /\ cur[i] = 1
        /\ conn[1].st = "read"
        /\ conn[2] = [st |-> "queued", srv |-> i, status |-> 0]

(***************************************************************************)
(* C6                                                                      *)
(***************************************************************************)
\* C6 as stated: an instance that has exited after one interrupt, delivered
\* at any point after its socket was bound, has printed "Server stopped."
\* last and exited with code 0.
C6_InterruptAnywhereIsCleanStop ==
    \A i \in Instances :
        (pc[i] = "exited" /\ ints[i] = 1)
        => (/\ out[i] # <<>>
            /\ out[i][Len(out[i])] = StoppedLine
            /\ exit_code[i] = 0)

\* C6, amended: an interrupt delivered while the instance is in
\* serve_forever, idle in the accept loop or handling a request, is a
\* planned termination: the loop is left, "Server stopped." is printed and,
\* no further interrupt arriving, the process exits with code 0.  (One
\* delivered while the startup lines are printed is not caught.)
C6_InterruptInLoopIsCleanStop ==
    \A i \in Instances :
        /\ (ints[i] = 1 /\ first_int[i] \in InLoop) => pc[i] \in {"caught", "exited"}
        /\ (pc[i] = "exited" /\ ints[i] = 1 /\ first_int[i] \in InLoop)
           => (/\ out[i] = <<StartupLine1, StartupLine2, StoppedLine>>
               /\ exit_code[i] = 0)

\* an instance interrupted in the middle of a request has stopped cleanly
C6_Witness ==
    \E i \in Instances :
        /\ pc[i] = "exited"
        /\ ints[i] = 1
        /\ first_int[i] = "respond"
        /\ exit_code[i] = 0

(***************************************************************************)
(* C7                                                                      *)
(***************************************************************************)
\* C7: the listening socket is closed on every way out: an interrupted
\* instance eventually terminates; a terminated instance's socket is
\* closed; and once no instance listens, a new instance's bind succeeds at
\* once, connections in TIME_WAIT notwithstanding.
C7_SocketReleased ==
    /\ [](\A i \in Instances :
            pc[i] = "exited" =>
                /\ sock[i] \in {"closed", "bindfailed"}
                /\ (Listeners = {} => \A j \in Instances : bind_ok(j)))
    /\ \A i \in Instances : (ints[i] > 0) ~> (pc[i] = "exited")

\* the first instance has served a connection and was interrupted; the
\* second has bound the port while that connection is in TIME_WAIT
C7_Witness ==
    /\ pc["first"] = "exited"
    /\ ints["first"] > 0
    /\ sock["first"] = "closed"
    /\ \E c \in Conns : conn[c].srv = "first" /\ conn[c].st = "closed"
    /\ time_wait
    /\ pc["second"] = "bound"
    /\ Listening("second")

(***************************************************************************)
(* C8                                                                      *)
(***************************************************************************)
\* C8: never do two instances listen on the port: an instance started while
\* another holds its listening socket fails to bind, address reuse or not.
C8_NoDualBinding ==
    /\ Cardinality(Listeners) <= 1
    /\ \A i \in Instances :
        sock[i] = "bindfailed" => (pc[i] = "exited" /\ ~Listening(i))

\* the second instance failed to bind while the first listens, TIME_WAIT
\* connections being present
C8_Witness ==
    /\ Listening("first")
    /\ time_wait
    /\ sock["second"] = "bindfailed"

(***************************************************************************)
(* C9                                                                      *)
(***************************************************************************)
\* C9: a bind failure is fatal and not retried: the instance has exited
\* with a nonzero code, has printed nothing, never listened and never
\* served a connection.
C9_BindFailureIsFatal ==
    \A i \in Instances :
        sock[i] = "bindfailed"
        => (/\ pc[i] = "exited"
            /\ exit_code[i] \notin {0, Running}
            /\ out[i] = <<>>
            /\ \A c \in Conns : conn[c].srv # i)

\* an instance has failed to bind and has exited with status 1 while the
\* other serves a request
C9_Witness ==
    \E i, j \in Instances :
        /\ sock[i] = "bindfailed"
        /\ exit_code[i] = 1
        /\ pc[j] = "shutdown"

============================================================================
